---- MODULE Spec2Model ----
\* A model of plugin/ts_helper.py: one run of main(), from the loading of the
\* grammar to the exit of the process, over a corpus of sources and of the trees
\* the tree_sitter library yields for them.
EXTENDS Integers, Sequences, FiniteSets, TLC

VARIABLES
  cmd,           \* args.cmd, one of argparse's choices
  args,          \* args.args, the positional arguments, each a sequence of characters
  package,       \* what importing tree_sitter_<lang> finds for the given --lang
  library,       \* whether the library's nodes expose every attribute ("contract") or not ("drift")
  pc,            \* the position of main()
  lang,          \* the value load_language returned
  parser,        \* the convention make_parser_for_language built the parser with
  stdin_read,    \* sys.stdin.buffer.read() has been called
  source_bytes,  \* the bytes read from standard input
  root,          \* tree.root_node, or None
  doc,           \* the value handed to json.dumps by the branch of the command
  stdout,        \* the JSON documents printed
  stderr,        \* the messages written to standard error
  exit_code,     \* the exit status of the process, Running until it exits
  steps,         \* the steps main() has entered, in order
  calls          \* the tree-walking functions main() has called

vars == <<cmd, args, package, library, pc, lang, parser, stdin_read, source_bytes,
          root, doc, stdout, stderr, exit_code, steps, calls>>

\* ---------------------------------------------------------------- bounds

\* The largest number of positional arguments of an invocation.
MaxArgs == 2

\* ------------------------------------------------------------- constants

DEFAULT_SYMBOL_NODE_TYPES ==
  {"function_definition", "function_declaration", "function_item",
   "method_definition", "method_declaration", "class_declaration",
   "class_definition", "class_specifier", "function", "method"}

\* node_to_dict's max_text default.
max_text == 120

Commands == {"ast", "node_at", "symbols", "folds"}

Running == 0 - 1

None == [present |-> FALSE]

\* JSON values: {} , a node's object, an array, null and a string.
EmptyObject == [json |-> "object"]
JArray(items) == [json |-> "array", items |-> items]
JNull == [json |-> "null"]
JString(s) == [json |-> "string", chars |-> s]

\* ------------------------------------------------------ the parse corpus
\* What parser.parse yields for each source: the nodes in pre-order, node 1
\* the root, children as indices. A node that lacks an attribute carries
\* hasStart / hasEnd / hasBytes = FALSE and the attribute is never read.

\* python, empty input: a childless zero-width root
PyEmpty ==
  [bytes |-> <<>>,
   nodes |-> <<
     [type |-> "module", is_named |-> TRUE, hasStart |-> TRUE, hasEnd |-> TRUE, hasBytes |-> TRUE,
      start_point |-> <<0, 0>>, end_point |-> <<0, 0>>, start_byte |-> 0, end_byte |-> 0,
      children |-> <<>>]
   >>]

\* python, "x = 1\n"
PyAssign ==
  [bytes |-> <<"x", " ", "=", " ", "1", "\n">>,
   nodes |-> <<
     [type |-> "module", is_named |-> TRUE, hasStart |-> TRUE, hasEnd |-> TRUE, hasBytes |-> TRUE,
      start_point |-> <<0, 0>>, end_point |-> <<1, 0>>, start_byte |-> 0, end_byte |-> 6,
      children |-> <<2>>],
     [type |-> "expression_statement", is_named |-> TRUE, hasStart |-> TRUE, hasEnd |-> TRUE, hasBytes |-> TRUE,
      start_point |-> <<0, 0>>, end_point |-> <<0, 5>>, start_byte |-> 0, end_byte |-> 5,
      children |-> <<3>>],
     [type |-> "assignment", is_named |-> TRUE, hasStart |-> TRUE, hasEnd |-> TRUE, hasBytes |-> TRUE,
      start_point |-> <<0, 0>>, end_point |-> <<0, 5>>, start_byte |-> 0, end_byte |-> 5,
      children |-> <<4, 5, 6>>],
     [type |-> "identifier", is_named |-> TRUE, hasStart |-> TRUE, hasEnd |-> TRUE, hasBytes |-> TRUE,
      start_point |-> <<0, 0>>, end_point |-> <<0, 1>>, start_byte |-> 0, end_byte |-> 1,
      children |-> <<>>],
     [type |-> "=", is_named |-> FALSE, hasStart |-> TRUE, hasEnd |-> TRUE, hasBytes |-> TRUE,
      start_point |-> <<0, 2>>, end_point |-> <<0, 3>>, start_byte |-> 2, end_byte |-> 3,
      children |-> <<>>],
     [type |-> "integer", is_named |-> TRUE, hasStart |-> TRUE, hasEnd |-> TRUE, hasBytes |-> TRUE,
      start_point |-> <<0, 4>>, end_point |-> <<0, 5>>, start_byte |-> 4, end_byte |-> 5,
      children |-> <<>>]
   >>]

\* python, "def foo():\n    pass\n"
PyDef ==
  [bytes |-> <<"d", "e", "f", " ", "f", "o", "o", "(", ")", ":", "\n", " ", " ", " ", " ", "p", "a", "s", "s", "\n">>,
   nodes |-> <<
     [type |-> "module", is_named |-> TRUE, hasStart |-> TRUE, hasEnd |-> TRUE, hasBytes |-> TRUE,
      start_point |-> <<0, 0>>, end_point |-> <<2, 0>>, start_byte |-> 0, end_byte |-> 20,
      children |-> <<2>>],
     [type |-> "function_definition", is_named |-> TRUE, hasStart |-> TRUE, hasEnd |-> TRUE, hasBytes |-> TRUE,
      start_point |-> <<0, 0>>, end_point |-> <<1, 8>>, start_byte |-> 0, end_byte |-> 19,
      children |-> <<3, 4, 5, 8, 9>>],
     [type |-> "def", is_named |-> FALSE, hasStart |-> TRUE, hasEnd |-> TRUE, hasBytes |-> TRUE,
      start_point |-> <<0, 0>>, end_point |-> <<0, 3>>, start_byte |-> 0, end_byte |-> 3,
      children |-> <<>>],
     [type |-> "identifier", is_named |-> TRUE, hasStart |-> TRUE, hasEnd |-> TRUE, hasBytes |-> TRUE,
      start_point |-> <<0, 4>>, end_point |-> <<0, 7>>, start_byte |-> 4, end_byte |-> 7,
      children |-> <<>>],
     [type |-> "parameters", is_named |-> TRUE, hasStart |-> TRUE, hasEnd |-> TRUE, hasBytes |-> TRUE,
      start_point |-> <<0, 7>>, end_point |-> <<0, 9>>, start_byte |-> 7, end_byte |-> 9,
      children |-> <<6, 7>>],
     [type |-> "(", is_named |-> FALSE, hasStart |-> TRUE, hasEnd |-> TRUE, hasBytes |-> TRUE,
      start_point |-> <<0, 7>>, end_point |-> <<0, 8>>, start_byte |-> 7, end_byte |-> 8,
      children |-> <<>>],
     [type |-> ")", is_named |-> FALSE, hasStart |-> TRUE, hasEnd |-> TRUE, hasBytes |-> TRUE,
      start_point |-> <<0, 8>>, end_point |-> <<0, 9>>, start_byte |-> 8, end_byte |-> 9,
      children |-> <<>>],
     [type |-> ":", is_named |-> FALSE, hasStart |-> TRUE, hasEnd |-> TRUE, hasBytes |-> TRUE,
      start_point |-> <<0, 9>>, end_point |-> <<0, 10>>, start_byte |-> 9, end_byte |-> 10,
      children |-> <<>>],
     [type |-> "block", is_named |-> TRUE, hasStart |-> TRUE, hasEnd |-> TRUE, hasBytes |-> TRUE,
      start_point |-> <<1, 4>>, end_point |-> <<1, 8>>, start_byte |-> 15, end_byte |-> 19,
      children |-> <<10>>],
     [type |-> "pass_statement", is_named |-> TRUE, hasStart |-> TRUE, hasEnd |-> TRUE, hasBytes |-> TRUE,
      start_point |-> <<1, 4>>, end_point |-> <<1, 8>>, start_byte |-> 15, end_byte |-> 19,
      children |-> <<>>]
   >>]

\* python, "class A:\n def m(x):\n  pass\n": a symbol nested in a symbol
PyClass ==
  [bytes |-> <<"c", "l", "a", "s", "s", " ", "A", ":", "\n", " ", "d", "e", "f", " ", "m", "(", "x", ")", ":", "\n", " ", " ", "p", "a", "s", "s", "\n">>,
   nodes |-> <<
     [type |-> "module", is_named |-> TRUE, hasStart |-> TRUE, hasEnd |-> TRUE, hasBytes |-> TRUE,
      start_point |-> <<0, 0>>, end_point |-> <<3, 0>>, start_byte |-> 0, end_byte |-> 27,
      children |-> <<2>>],
     [type |-> "class_definition", is_named |-> TRUE, hasStart |-> TRUE, hasEnd |-> TRUE, hasBytes |-> TRUE,
      start_point |-> <<0, 0>>, end_point |-> <<2, 6>>, start_byte |-> 0, end_byte |-> 26,
      children |-> <<3, 4, 5, 6>>],
     [type |-> "class", is_named |-> FALSE, hasStart |-> TRUE, hasEnd |-> TRUE, hasBytes |-> TRUE,
      start_point |-> <<0, 0>>, end_point |-> <<0, 5>>, start_byte |-> 0, end_byte |-> 5,
      children |-> <<>>],
     [type |-> "identifier", is_named |-> TRUE, hasStart |-> TRUE, hasEnd |-> TRUE, hasBytes |-> TRUE,
      start_point |-> <<0, 6>>, end_point |-> <<0, 7>>, start_byte |-> 6, end_byte |-> 7,
      children |-> <<>>],
     [type |-> ":", is_named |-> FALSE, hasStart |-> TRUE, hasEnd |-> TRUE, hasBytes |-> TRUE,
      start_point |-> <<0, 7>>, end_point |-> <<0, 8>>, start_byte |-> 7, end_byte |-> 8,
      children |-> <<>>],
     [type |-> "block", is_named |-> TRUE, hasStart |-> TRUE, hasEnd |-> TRUE, hasBytes |-> TRUE,
      start_point |-> <<1, 1>>, end_point |-> <<2, 6>>, start_byte |-> 10, end_byte |-> 26,
      children |-> <<7>>],
     [type |-> "function_definition", is_named |-> TRUE, hasStart |-> TRUE, hasEnd |-> TRUE, hasBytes |-> TRUE,
      start_point |-> <<1, 1>>, end_point |-> <<2, 6>>, start_byte |-> 10, end_byte |-> 26,
      children |-> <<8, 9, 10, 14, 15>>],
     [type |-> "def", is_named |-> FALSE, hasStart |-> TRUE, hasEnd |-> TRUE, hasBytes |-> TRUE,
      start_point |-> <<1, 1>>, end_point |-> <<1, 4>>, start_byte |-> 10, end_byte |-> 13,
      children |-> <<>>],
     [type |-> "identifier", is_named |-> TRUE, hasStart |-> TRUE, hasEnd |-> TRUE, hasBytes |-> TRUE,
      start_point |-> <<1, 5>>, end_point |-> <<1, 6>>, start_byte |-> 14, end_byte |-> 15,
      children |-> <<>>],
     [type |-> "parameters", is_named |-> TRUE, hasStart |-> TRUE, hasEnd |-> TRUE, hasBytes |-> TRUE,
      start_point |-> <<1, 6>>, end_point |-> <<1, 9>>, start_byte |-> 15, end_byte |-> 18,
      children |-> <<11, 12, 13>>],
     [type |-> "(", is_named |-> FALSE, hasStart |-> TRUE, hasEnd |-> TRUE, hasBytes |-> TRUE,
      start_point |-> <<1, 6>>, end_point |-> <<1, 7>>, start_byte |-> 15, end_byte |-> 16,
      children |-> <<>>],
     [type |-> "identifier", is_named |-> TRUE, hasStart |-> TRUE, hasEnd |-> TRUE, hasBytes |-> TRUE,
      start_point |-> <<1, 7>>, end_point |-> <<1, 8>>, start_byte |-> 16, end_byte |-> 17,
      children |-> <<>>],
     [type |-> ")", is_named |-> FALSE, hasStart |-> TRUE, hasEnd |-> TRUE, hasBytes |-> TRUE,
      start_point |-> <<1, 8>>, end_point |-> <<1, 9>>, start_byte |-> 17, end_byte |-> 18,
      children |-> <<>>],
     [type |-> ":", is_named |-> FALSE, hasStart |-> TRUE, hasEnd |-> TRUE, hasBytes |-> TRUE,
      start_point |-> <<1, 9>>, end_point |-> <<1, 10>>, start_byte |-> 18, end_byte |-> 19,
      children |-> <<>>],
     [type |-> "block", is_named |-> TRUE, hasStart |-> TRUE, hasEnd |-> TRUE, hasBytes |-> TRUE,
      start_point |-> <<2, 2>>, end_point |-> <<2, 6>>, start_byte |-> 22, end_byte |-> 26,
      children |-> <<16>>],
     [type |-> "pass_statement", is_named |-> TRUE, hasStart |-> TRUE, hasEnd |-> TRUE, hasBytes |-> TRUE,
      start_point |-> <<2, 2>>, end_point |-> <<2, 6>>, start_byte |-> 22, end_byte |-> 26,
      children |-> <<>>]
   >>]

\* python, "\n\nx\n": the root starts after the leading blank lines
PyLead ==
  [bytes |-> <<"\n", "\n", "x", "\n">>,
   nodes |-> <<
     [type |-> "module", is_named |-> TRUE, hasStart |-> TRUE, hasEnd |-> TRUE, hasBytes |-> TRUE,
      start_point |-> <<2, 0>>, end_point |-> <<3, 0>>, start_byte |-> 2, end_byte |-> 4,
      children |-> <<2>>],
     [type |-> "expression_statement", is_named |-> TRUE, hasStart |-> TRUE, hasEnd |-> TRUE, hasBytes |-> TRUE,
      start_point |-> <<2, 0>>, end_point |-> <<2, 1>>, start_byte |-> 2, end_byte |-> 3,
      children |-> <<3>>],
     [type |-> "identifier", is_named |-> TRUE, hasStart |-> TRUE, hasEnd |-> TRUE, hasBytes |-> TRUE,
      start_point |-> <<2, 0>>, end_point |-> <<2, 1>>, start_byte |-> 2, end_byte |-> 3,
      children |-> <<>>]
   >>]

\* python, "# <0xFF>\n": a byte that is not valid UTF-8
PyComment ==
  [bytes |-> <<"#", " ", "xFF", "\n">>,
   nodes |-> <<
     [type |-> "module", is_named |-> TRUE, hasStart |-> TRUE, hasEnd |-> TRUE, hasBytes |-> TRUE,
      start_point |-> <<0, 0>>, end_point |-> <<1, 0>>, start_byte |-> 0, end_byte |-> 4,
      children |-> <<2>>],
     [type |-> "comment", is_named |-> TRUE, hasStart |-> TRUE, hasEnd |-> TRUE, hasBytes |-> TRUE,
      start_point |-> <<0, 0>>, end_point |-> <<0, 3>>, start_byte |-> 0, end_byte |-> 3,
      children |-> <<>>]
   >>]

\* c, "int f()\n{\n}\n": the identifier is a grandchild of the symbol
CFunc ==
  [bytes |-> <<"i", "n", "t", " ", "f", "(", ")", "\n", "{", "\n", "}", "\n">>,
   nodes |-> <<
     [type |-> "translation_unit", is_named |-> TRUE, hasStart |-> TRUE, hasEnd |-> TRUE, hasBytes |-> TRUE,
      start_point |-> <<0, 0>>, end_point |-> <<3, 0>>, start_byte |-> 0, end_byte |-> 12,
      children |-> <<2>>],
     [type |-> "function_definition", is_named |-> TRUE, hasStart |-> TRUE, hasEnd |-> TRUE, hasBytes |-> TRUE,
      start_point |-> <<0, 0>>, end_point |-> <<2, 1>>, start_byte |-> 0, end_byte |-> 11,
      children |-> <<3, 4, 9>>],
     [type |-> "primitive_type", is_named |-> TRUE, hasStart |-> TRUE, hasEnd |-> TRUE, hasBytes |-> TRUE,
      start_point |-> <<0, 0>>, end_point |-> <<0, 3>>, start_byte |-> 0, end_byte |-> 3,
      children |-> <<>>],
     [type |-> "function_declarator", is_named |-> TRUE, hasStart |-> TRUE, hasEnd |-> TRUE, hasBytes |-> TRUE,
      start_point |-> <<0, 4>>, end_point |-> <<0, 7>>, start_byte |-> 4, end_byte |-> 7,
      children |-> <<5, 6>>],
     [type |-> "identifier", is_named |-> TRUE, hasStart |-> TRUE, hasEnd |-> TRUE, hasBytes |-> TRUE,
      start_point |-> <<0, 4>>, end_point |-> <<0, 5>>, start_byte |-> 4, end_byte |-> 5,
      children |-> <<>>],
     [type |-> "parameter_list", is_named |-> TRUE, hasStart |-> TRUE, hasEnd |-> TRUE, hasBytes |-> TRUE,
      start_point |-> <<0, 5>>, end_point |-> <<0, 7>>, start_byte |-> 5, end_byte |-> 7,
      children |-> <<7, 8>>],
     [type |-> "(", is_named |-> FALSE, hasStart |-> TRUE, hasEnd |-> TRUE, hasBytes |-> TRUE,
      start_point |-> <<0, 5>>, end_point |-> <<0, 6>>, start_byte |-> 5, end_byte |-> 6,
      children |-> <<>>],
     [type |-> ")", is_named |-> FALSE, hasStart |-> TRUE, hasEnd |-> TRUE, hasBytes |-> TRUE,
      start_point |-> <<0, 6>>, end_point |-> <<0, 7>>, start_byte |-> 6, end_byte |-> 7,
      children |-> <<>>],
     [type |-> "compound_statement", is_named |-> TRUE, hasStart |-> TRUE, hasEnd |-> TRUE, hasBytes |-> TRUE,
      start_point |-> <<1, 0>>, end_point |-> <<2, 1>>, start_byte |-> 8, end_byte |-> 11,
      children |-> <<10, 11>>],
     [type |-> "{", is_named |-> FALSE, hasStart |-> TRUE, hasEnd |-> TRUE, hasBytes |-> TRUE,
      start_point |-> <<1, 0>>, end_point |-> <<1, 1>>, start_byte |-> 8, end_byte |-> 9,
      children |-> <<>>],
     [type |-> "}", is_named |-> FALSE, hasStart |-> TRUE, hasEnd |-> TRUE, hasBytes |-> TRUE,
      start_point |-> <<2, 0>>, end_point |-> <<2, 1>>, start_byte |-> 10, end_byte |-> 11,
      children |-> <<>>]
   >>]

\* java, "class A {\n  a .  B m() {\n  }\n}\n": the return type precedes the method name
JavaClass ==
  [bytes |-> <<"c", "l", "a", "s", "s", " ", "A", " ", "{", "\n", " ", " ", "a", " ", ".", " ", " ", "B", " ", "m", "(", ")", " ", "{", "\n", " ", " ", "}", "\n", "}", "\n">>,
   nodes |-> <<
     [type |-> "program", is_named |-> TRUE, hasStart |-> TRUE, hasEnd |-> TRUE, hasBytes |-> TRUE,
      start_point |-> <<0, 0>>, end_point |-> <<4, 0>>, start_byte |-> 0, end_byte |-> 31,
      children |-> <<2>>],
     [type |-> "class_declaration", is_named |-> TRUE, hasStart |-> TRUE, hasEnd |-> TRUE, hasBytes |-> TRUE,
      start_point |-> <<0, 0>>, end_point |-> <<3, 1>>, start_byte |-> 0, end_byte |-> 30,
      children |-> <<3, 4, 5>>],
     [type |-> "class", is_named |-> FALSE, hasStart |-> TRUE, hasEnd |-> TRUE, hasBytes |-> TRUE,
      start_point |-> <<0, 0>>, end_point |-> <<0, 5>>, start_byte |-> 0, end_byte |-> 5,
      children |-> <<>>],
     [type |-> "identifier", is_named |-> TRUE, hasStart |-> TRUE, hasEnd |-> TRUE, hasBytes |-> TRUE,
      start_point |-> <<0, 6>>, end_point |-> <<0, 7>>, start_byte |-> 6, end_byte |-> 7,
      children |-> <<>>],
     [type |-> "class_body", is_named |-> TRUE, hasStart |-> TRUE, hasEnd |-> TRUE, hasBytes |-> TRUE,
      start_point |-> <<0, 8>>, end_point |-> <<3, 1>>, start_byte |-> 8, end_byte |-> 30,
      children |-> <<6, 7, 19>>],
     [type |-> "{", is_named |-> FALSE, hasStart |-> TRUE, hasEnd |-> TRUE, hasBytes |-> TRUE,
      start_point |-> <<0, 8>>, end_point |-> <<0, 9>>, start_byte |-> 8, end_byte |-> 9,
      children |-> <<>>],
     [type |-> "method_declaration", is_named |-> TRUE, hasStart |-> TRUE, hasEnd |-> TRUE, hasBytes |-> TRUE,
      start_point |-> <<1, 2>>, end_point |-> <<2, 3>>, start_byte |-> 12, end_byte |-> 28,
      children |-> <<8, 12, 13, 16>>],
     [type |-> "scoped_type_identifier", is_named |-> TRUE, hasStart |-> TRUE, hasEnd |-> TRUE, hasBytes |-> TRUE,
      start_point |-> <<1, 2>>, end_point |-> <<1, 8>>, start_byte |-> 12, end_byte |-> 18,
      children |-> <<9, 10, 11>>],
     [type |-> "type_identifier", is_named |-> TRUE, hasStart |-> TRUE, hasEnd |-> TRUE, hasBytes |-> TRUE,
      start_point |-> <<1, 2>>, end_point |-> <<1, 3>>, start_byte |-> 12, end_byte |-> 13,
      children |-> <<>>],
     [type |-> ".", is_named |-> FALSE, hasStart |-> TRUE, hasEnd |-> TRUE, hasBytes |-> TRUE,
      start_point |-> <<1, 4>>, end_point |-> <<1, 5>>, start_byte |-> 14, end_byte |-> 15,
      children |-> <<>>],
     [type |-> "type_identifier", is_named |-> TRUE, hasStart |-> TRUE, hasEnd |-> TRUE, hasBytes |-> TRUE,
      start_point |-> <<1, 7>>, end_point |-> <<1, 8>>, start_byte |-> 17, end_byte |-> 18,
      children |-> <<>>],
     [type |-> "identifier", is_named |-> TRUE, hasStart |-> TRUE, hasEnd |-> TRUE, hasBytes |-> TRUE,
      start_point |-> <<1, 9>>, end_point |-> <<1, 10>>, start_byte |-> 19, end_byte |-> 20,
      children |-> <<>>],
     [type |-> "formal_parameters", is_named |-> TRUE, hasStart |-> TRUE, hasEnd |-> TRUE, hasBytes |-> TRUE,
      start_point |-> <<1, 10>>, end_point |-> <<1, 12>>, start_byte |-> 20, end_byte |-> 22,
      children |-> <<14, 15>>],
     [type |-> "(", is_named |-> FALSE, hasStart |-> TRUE, hasEnd |-> TRUE, hasBytes |-> TRUE,
      start_point |-> <<1, 10>>, end_point |-> <<1, 11>>, start_byte |-> 20, end_byte |-> 21,
      children |-> <<>>],
     [type |-> ")", is_named |-> FALSE, hasStart |-> TRUE, hasEnd |-> TRUE, hasBytes |-> TRUE,
      start_point |-> <<1, 11>>, end_point |-> <<1, 12>>, start_byte |-> 21, end_byte |-> 22,
      children |-> <<>>],
     [type |-> "block", is_named |-> TRUE, hasStart |-> TRUE, hasEnd |-> TRUE, hasBytes |-> TRUE,
      start_point |-> <<1, 13>>, end_point |-> <<2, 3>>, start_byte |-> 23, end_byte |-> 28,
      children |-> <<17, 18>>],
     [type |-> "{", is_named |-> FALSE, hasStart |-> TRUE, hasEnd |-> TRUE, hasBytes |-> TRUE,
      start_point |-> <<1, 13>>, end_point |-> <<1, 14>>, start_byte |-> 23, end_byte |-> 24,
      children |-> <<>>],
     [type |-> "}", is_named |-> FALSE, hasStart |-> TRUE, hasEnd |-> TRUE, hasBytes |-> TRUE,
      start_point |-> <<2, 2>>, end_point |-> <<2, 3>>, start_byte |-> 27, end_byte |-> 28,
      children |-> <<>>],
     [type |-> "}", is_named |-> FALSE, hasStart |-> TRUE, hasEnd |-> TRUE, hasBytes |-> TRUE,
      start_point |-> <<3, 0>>, end_point |-> <<3, 1>>, start_byte |-> 29, end_byte |-> 30,
      children |-> <<>>]
   >>]

\* a grammar whose anonymous token "begin\nend" holds a line break
AnonToken ==
  [bytes |-> <<"b", "e", "g", "i", "n", "\n", "e", "n", "d", "\n">>,
   nodes |-> <<
     [type |-> "document", is_named |-> TRUE, hasStart |-> TRUE, hasEnd |-> TRUE, hasBytes |-> TRUE,
      start_point |-> <<0, 0>>, end_point |-> <<2, 0>>, start_byte |-> 0, end_byte |-> 10,
      children |-> <<2>>],
     [type |-> "begin\nend", is_named |-> FALSE, hasStart |-> TRUE, hasEnd |-> TRUE, hasBytes |-> TRUE,
      start_point |-> <<0, 0>>, end_point |-> <<1, 3>>, start_byte |-> 0, end_byte |-> 9,
      children |-> <<>>]
   >>]

\* php, "<?php\nfunction f() {\n}\n": the keyword token has type "function"
PhpFunc ==
  [bytes |-> <<"<", "?", "p", "h", "p", "\n", "f", "u", "n", "c", "t", "i", "o", "n", " ", "f", "(", ")", " ", "{", "\n", "}", "\n">>,
   nodes |-> <<
     [type |-> "program", is_named |-> TRUE, hasStart |-> TRUE, hasEnd |-> TRUE, hasBytes |-> TRUE,
      start_point |-> <<0, 0>>, end_point |-> <<3, 0>>, start_byte |-> 0, end_byte |-> 23,
      children |-> <<2, 3>>],
     [type |-> "php_tag", is_named |-> TRUE, hasStart |-> TRUE, hasEnd |-> TRUE, hasBytes |-> TRUE,
      start_point |-> <<0, 0>>, end_point |-> <<0, 5>>, start_byte |-> 0, end_byte |-> 5,
      children |-> <<>>],
     [type |-> "function_definition", is_named |-> TRUE, hasStart |-> TRUE, hasEnd |-> TRUE, hasBytes |-> TRUE,
      start_point |-> <<1, 0>>, end_point |-> <<2, 1>>, start_byte |-> 6, end_byte |-> 22,
      children |-> <<4, 5, 6, 9>>],
     [type |-> "function", is_named |-> FALSE, hasStart |-> TRUE, hasEnd |-> TRUE, hasBytes |-> TRUE,
      start_point |-> <<1, 0>>, end_point |-> <<1, 8>>, start_byte |-> 6, end_byte |-> 14,
      children |-> <<>>],
     [type |-> "name", is_named |-> TRUE, hasStart |-> TRUE, hasEnd |-> TRUE, hasBytes |-> TRUE,
      start_point |-> <<1, 9>>, end_point |-> <<1, 10>>, start_byte |-> 15, end_byte |-> 16,
      children |-> <<>>],
     [type |-> "formal_parameters", is_named |-> TRUE, hasStart |-> TRUE, hasEnd |-> TRUE, hasBytes |-> TRUE,
      start_point |-> <<1, 10>>, end_point |-> <<1, 12>>, start_byte |-> 16, end_byte |-> 18,
      children |-> <<7, 8>>],
     [type |-> "(", is_named |-> FALSE, hasStart |-> TRUE, hasEnd |-> TRUE, hasBytes |-> TRUE,
      start_point |-> <<1, 10>>, end_point |-> <<1, 11>>, start_byte |-> 16, end_byte |-> 17,
      children |-> <<>>],
     [type |-> ")", is_named |-> FALSE, hasStart |-> TRUE, hasEnd |-> TRUE, hasBytes |-> TRUE,
      start_point |-> <<1, 11>>, end_point |-> <<1, 12>>, start_byte |-> 17, end_byte |-> 18,
      children |-> <<>>],
     [type |-> "compound_statement", is_named |-> TRUE, hasStart |-> TRUE, hasEnd |-> TRUE, hasBytes |-> TRUE,
      start_point |-> <<1, 13>>, end_point |-> <<2, 1>>, start_byte |-> 19, end_byte |-> 22,
      children |-> <<10, 11>>],
     [type |-> "{", is_named |-> FALSE, hasStart |-> TRUE, hasEnd |-> TRUE, hasBytes |-> TRUE,
      start_point |-> <<1, 13>>, end_point |-> <<1, 14>>, start_byte |-> 19, end_byte |-> 20,
      children |-> <<>>],
     [type |-> "}", is_named |-> FALSE, hasStart |-> TRUE, hasEnd |-> TRUE, hasBytes |-> TRUE,
      start_point |-> <<2, 0>>, end_point |-> <<2, 1>>, start_byte |-> 21, end_byte |-> 22,
      children |-> <<>>]
   >>]

\* PyClass whose class_definition node exposes no start_point / end_point
PyClassNoPos ==
  [bytes |-> <<"c", "l", "a", "s", "s", " ", "A", ":", "\n", " ", "d", "e", "f", " ", "m", "(", "x", ")", ":", "\n", " ", " ", "p", "a", "s", "s", "\n">>,
   nodes |-> <<
     [type |-> "module", is_named |-> TRUE, hasStart |-> TRUE, hasEnd |-> TRUE, hasBytes |-> TRUE,
      start_point |-> <<0, 0>>, end_point |-> <<3, 0>>, start_byte |-> 0, end_byte |-> 27,
      children |-> <<2>>],
     [type |-> "class_definition", is_named |-> TRUE, hasStart |-> FALSE, hasEnd |-> FALSE, hasBytes |-> TRUE,
      start_point |-> <<0, 0>>, end_point |-> <<0, 0>>, start_byte |-> 0, end_byte |-> 26,
      children |-> <<3, 4, 5, 6>>],
     [type |-> "class", is_named |-> FALSE, hasStart |-> TRUE, hasEnd |-> TRUE, hasBytes |-> TRUE,
      start_point |-> <<0, 0>>, end_point |-> <<0, 5>>, start_byte |-> 0, end_byte |-> 5,
      children |-> <<>>],
     [type |-> "identifier", is_named |-> TRUE, hasStart |-> TRUE, hasEnd |-> TRUE, hasBytes |-> TRUE,
      start_point |-> <<0, 6>>, end_point |-> <<0, 7>>, start_byte |-> 6, end_byte |-> 7,
      children |-> <<>>],
     [type |-> ":", is_named |-> FALSE, hasStart |-> TRUE, hasEnd |-> TRUE, hasBytes |-> TRUE,
      start_point |-> <<0, 7>>, end_point |-> <<0, 8>>, start_byte |-> 7, end_byte |-> 8,
      children |-> <<>>],
     [type |-> "block", is_named |-> TRUE, hasStart |-> TRUE, hasEnd |-> TRUE, hasBytes |-> TRUE,
      start_point |-> <<1, 1>>, end_point |-> <<2, 6>>, start_byte |-> 10, end_byte |-> 26,
      children |-> <<7>>],
     [type |-> "function_definition", is_named |-> TRUE, hasStart |-> TRUE, hasEnd |-> TRUE, hasBytes |-> TRUE,
      start_point |-> <<1, 1>>, end_point |-> <<2, 6>>, start_byte |-> 10, end_byte |-> 26,
      children |-> <<8, 9, 10, 14, 15>>],
     [type |-> "def", is_named |-> FALSE, hasStart |-> TRUE, hasEnd |-> TRUE, hasBytes |-> TRUE,
      start_point |-> <<1, 1>>, end_point |-> <<1, 4>>, start_byte |-> 10, end_byte |-> 13,
      children |-> <<>>],
     [type |-> "identifier", is_named |-> TRUE, hasStart |-> TRUE, hasEnd |-> TRUE, hasBytes |-> TRUE,
      start_point |-> <<1, 5>>, end_point |-> <<1, 6>>, start_byte |-> 14, end_byte |-> 15,
      children |-> <<>>],
     [type |-> "parameters", is_named |-> TRUE, hasStart |-> TRUE, hasEnd |-> TRUE, hasBytes |-> TRUE,
      start_point |-> <<1, 6>>, end_point |-> <<1, 9>>, start_byte |-> 15, end_byte |-> 18,
      children |-> <<11, 12, 13>>],
     [type |-> "(", is_named |-> FALSE, hasStart |-> TRUE, hasEnd |-> TRUE, hasBytes |-> TRUE,
      start_point |-> <<1, 6>>, end_point |-> <<1, 7>>, start_byte |-> 15, end_byte |-> 16,
      children |-> <<>>],
     [type |-> "identifier", is_named |-> TRUE, hasStart |-> TRUE, hasEnd |-> TRUE, hasBytes |-> TRUE,
      start_point |-> <<1, 7>>, end_point |-> <<1, 8>>, start_byte |-> 16, end_byte |-> 17,
      children |-> <<>>],
     [type |-> ")", is_named |-> FALSE, hasStart |-> TRUE, hasEnd |-> TRUE, hasBytes |-> TRUE,
      start_point |-> <<1, 8>>, end_point |-> <<1, 9>>, start_byte |-> 17, end_byte |-> 18,
      children |-> <<>>],
     [type |-> ":", is_named |-> FALSE, hasStart |-> TRUE, hasEnd |-> TRUE, hasBytes |-> TRUE,
      start_point |-> <<1, 9>>, end_point |-> <<1, 10>>, start_byte |-> 18, end_byte |-> 19,
      children |-> <<>>],
     [type |-> "block", is_named |-> TRUE, hasStart |-> TRUE, hasEnd |-> TRUE, hasBytes |-> TRUE,
      start_point |-> <<2, 2>>, end_point |-> <<2, 6>>, start_byte |-> 22, end_byte |-> 26,
      children |-> <<16>>],
     [type |-> "pass_statement", is_named |-> TRUE, hasStart |-> TRUE, hasEnd |-> TRUE, hasBytes |-> TRUE,
      start_point |-> <<2, 2>>, end_point |-> <<2, 6>>, start_byte |-> 22, end_byte |-> 26,
      children |-> <<>>]
   >>]

\* PyClass whose outer block node exposes no start_point / end_point
PyClassBlockNoPos ==
  [bytes |-> <<"c", "l", "a", "s", "s", " ", "A", ":", "\n", " ", "d", "e", "f", " ", "m", "(", "x", ")", ":", "\n", " ", " ", "p", "a", "s", "s", "\n">>,
   nodes |-> <<
     [type |-> "module", is_named |-> TRUE, hasStart |-> TRUE, hasEnd |-> TRUE, hasBytes |-> TRUE,
      start_point |-> <<0, 0>>, end_point |-> <<3, 0>>, start_byte |-> 0, end_byte |-> 27,
      children |-> <<2>>],
     [type |-> "class_definition", is_named |-> TRUE, hasStart |-> TRUE, hasEnd |-> TRUE, hasBytes |-> TRUE,
      start_point |-> <<0, 0>>, end_point |-> <<2, 6>>, start_byte |-> 0, end_byte |-> 26,
      children |-> <<3, 4, 5, 6>>],
     [type |-> "class", is_named |-> FALSE, hasStart |-> TRUE, hasEnd |-> TRUE, hasBytes |-> TRUE,
      start_point |-> <<0, 0>>, end_point |-> <<0, 5>>, start_byte |-> 0, end_byte |-> 5,
      children |-> <<>>],
     [type |-> "identifier", is_named |-> TRUE, hasStart |-> TRUE, hasEnd |-> TRUE, hasBytes |-> TRUE,
      start_point |-> <<0, 6>>, end_point |-> <<0, 7>>, start_byte |-> 6, end_byte |-> 7,
      children |-> <<>>],
     [type |-> ":", is_named |-> FALSE, hasStart |-> TRUE, hasEnd |-> TRUE, hasBytes |-> TRUE,
      start_point |-> <<0, 7>>, end_point |-> <<0, 8>>, start_byte |-> 7, end_byte |-> 8,
      children |-> <<>>],
     [type |-> "block", is_named |-> TRUE, hasStart |-> FALSE, hasEnd |-> FALSE, hasBytes |-> TRUE,
      start_point |-> <<0, 0>>, end_point |-> <<0, 0>>, start_byte |-> 10, end_byte |-> 26,
      children |-> <<7>>],
     [type |-> "function_definition", is_named |-> TRUE, hasStart |-> TRUE, hasEnd |-> TRUE, hasBytes |-> TRUE,
      start_point |-> <<1, 1>>, end_point |-> <<2, 6>>, start_byte |-> 10, end_byte |-> 26,
      children |-> <<8, 9, 10, 14, 15>>],
     [type |-> "def", is_named |-> FALSE, hasStart |-> TRUE, hasEnd |-> TRUE, hasBytes |-> TRUE,
      start_point |-> <<1, 1>>, end_point |-> <<1, 4>>, start_byte |-> 10, end_byte |-> 13,
      children |-> <<>>],
     [type |-> "identifier", is_named |-> TRUE, hasStart |-> TRUE, hasEnd |-> TRUE, hasBytes |-> TRUE,
      start_point |-> <<1, 5>>, end_point |-> <<1, 6>>, start_byte |-> 14, end_byte |-> 15,
      children |-> <<>>],
     [type |-> "parameters", is_named |-> TRUE, hasStart |-> TRUE, hasEnd |-> TRUE, hasBytes |-> TRUE,
      start_point |-> <<1, 6>>, end_point |-> <<1, 9>>, start_byte |-> 15, end_byte |-> 18,
      children |-> <<11, 12, 13>>],
     [type |-> "(", is_named |-> FALSE, hasStart |-> TRUE, hasEnd |-> TRUE, hasBytes |-> TRUE,
      start_point |-> <<1, 6>>, end_point |-> <<1, 7>>, start_byte |-> 15, end_byte |-> 16,
      children |-> <<>>],
     [type |-> "identifier", is_named |-> TRUE, hasStart |-> TRUE, hasEnd |-> TRUE, hasBytes |-> TRUE,
      start_point |-> <<1, 7>>, end_point |-> <<1, 8>>, start_byte |-> 16, end_byte |-> 17,
      children |-> <<>>],
     [type |-> ")", is_named |-> FALSE, hasStart |-> TRUE, hasEnd |-> TRUE, hasBytes |-> TRUE,
      start_point |-> <<1, 8>>, end_point |-> <<1, 9>>, start_byte |-> 17, end_byte |-> 18,
      children |-> <<>>],
     [type |-> ":", is_named |-> FALSE, hasStart |-> TRUE, hasEnd |-> TRUE, hasBytes |-> TRUE,
      start_point |-> <<1, 9>>, end_point |-> <<1, 10>>, start_byte |-> 18, end_byte |-> 19,
      children |-> <<>>],
     [type |-> "block", is_named |-> TRUE, hasStart |-> TRUE, hasEnd |-> TRUE, hasBytes |-> TRUE,
      start_point |-> <<2, 2>>, end_point |-> <<2, 6>>, start_byte |-> 22, end_byte |-> 26,
      children |-> <<16>>],
     [type |-> "pass_statement", is_named |-> TRUE, hasStart |-> TRUE, hasEnd |-> TRUE, hasBytes |-> TRUE,
      start_point |-> <<2, 2>>, end_point |-> <<2, 6>>, start_byte |-> 22, end_byte |-> 26,
      children |-> <<>>]
   >>]

\* PyClass whose function_definition node exposes no end_point
PyClassNoEnd ==
  [bytes |-> <<"c", "l", "a", "s", "s", " ", "A", ":", "\n", " ", "d", "e", "f", " ", "m", "(", "x", ")", ":", "\n", " ", " ", "p", "a", "s", "s", "\n">>,
   nodes |-> <<
     [type |-> "module", is_named |-> TRUE, hasStart |-> TRUE, hasEnd |-> TRUE, hasBytes |-> TRUE,
      start_point |-> <<0, 0>>, end_point |-> <<3, 0>>, start_byte |-> 0, end_byte |-> 27,
      children |-> <<2>>],
     [type |-> "class_definition", is_named |-> TRUE, hasStart |-> TRUE, hasEnd |-> TRUE, hasBytes |-> TRUE,
      start_point |-> <<0, 0>>, end_point |-> <<2, 6>>, start_byte |-> 0, end_byte |-> 26,
      children |-> <<3, 4, 5, 6>>],
     [type |-> "class", is_named |-> FALSE, hasStart |-> TRUE, hasEnd |-> TRUE, hasBytes |-> TRUE,
      start_point |-> <<0, 0>>, end_point |-> <<0, 5>>, start_byte |-> 0, end_byte |-> 5,
      children |-> <<>>],
     [type |-> "identifier", is_named |-> TRUE, hasStart |-> TRUE, hasEnd |-> TRUE, hasBytes |-> TRUE,
      start_point |-> <<0, 6>>, end_point |-> <<0, 7>>, start_byte |-> 6, end_byte |-> 7,
      children |-> <<>>],
     [type |-> ":", is_named |-> FALSE, hasStart |-> TRUE, hasEnd |-> TRUE, hasBytes |-> TRUE,
      start_point |-> <<0, 7>>, end_point |-> <<0, 8>>, start_byte |-> 7, end_byte |-> 8,
      children |-> <<>>],
     [type |-> "block", is_named |-> TRUE, hasStart |-> TRUE, hasEnd |-> TRUE, hasBytes |-> TRUE,
      start_point |-> <<1, 1>>, end_point |-> <<2, 6>>, start_byte |-> 10, end_byte |-> 26,
      children |-> <<7>>],
     [type |-> "function_definition", is_named |-> TRUE, hasStart |-> TRUE, hasEnd |-> FALSE, hasBytes |-> TRUE,
      start_point |-> <<1, 1>>, end_point |-> <<0, 0>>, start_byte |-> 10, end_byte |-> 26,
      children |-> <<8, 9, 10, 14, 15>>],
     [type |-> "def", is_named |-> FALSE, hasStart |-> TRUE, hasEnd |-> TRUE, hasBytes |-> TRUE,
      start_point |-> <<1, 1>>, end_point |-> <<1, 4>>, start_byte |-> 10, end_byte |-> 13,
      children |-> <<>>],
     [type |-> "identifier", is_named |-> TRUE, hasStart |-> TRUE, hasEnd |-> TRUE, hasBytes |-> TRUE,
      start_point |-> <<1, 5>>, end_point |-> <<1, 6>>, start_byte |-> 14, end_byte |-> 15,
      children |-> <<>>],
     [type |-> "parameters", is_named |-> TRUE, hasStart |-> TRUE, hasEnd |-> TRUE, hasBytes |-> TRUE,
      start_point |-> <<1, 6>>, end_point |-> <<1, 9>>, start_byte |-> 15, end_byte |-> 18,
      children |-> <<11, 12, 13>>],
     [type |-> "(", is_named |-> FALSE, hasStart |-> TRUE, hasEnd |-> TRUE, hasBytes |-> TRUE,
      start_point |-> <<1, 6>>, end_point |-> <<1, 7>>, start_byte |-> 15, end_byte |-> 16,
      children |-> <<>>],
     [type |-> "identifier", is_named |-> TRUE, hasStart |-> TRUE, hasEnd |-> TRUE, hasBytes |-> TRUE,
      start_point |-> <<1, 7>>, end_point |-> <<1, 8>>, start_byte |-> 16, end_byte |-> 17,
      children |-> <<>>],
     [type |-> ")", is_named |-> FALSE, hasStart |-> TRUE, hasEnd |-> TRUE, hasBytes |-> TRUE,
      start_point |-> <<1, 8>>, end_point |-> <<1, 9>>, start_byte |-> 17, end_byte |-> 18,
      children |-> <<>>],
     [type |-> ":", is_named |-> FALSE, hasStart |-> TRUE, hasEnd |-> TRUE, hasBytes |-> TRUE,
      start_point |-> <<1, 9>>, end_point |-> <<1, 10>>, start_byte |-> 18, end_byte |-> 19,
      children |-> <<>>],
     [type |-> "block", is_named |-> TRUE, hasStart |-> TRUE, hasEnd |-> TRUE, hasBytes |-> TRUE,
      start_point |-> <<2, 2>>, end_point |-> <<2, 6>>, start_byte |-> 22, end_byte |-> 26,
      children |-> <<16>>],
     [type |-> "pass_statement", is_named |-> TRUE, hasStart |-> TRUE, hasEnd |-> TRUE, hasBytes |-> TRUE,
      start_point |-> <<2, 2>>, end_point |-> <<2, 6>>, start_byte |-> 22, end_byte |-> 26,
      children |-> <<>>]
   >>]

\* JavaClass whose scoped_type_identifier node exposes no start_byte / end_byte
JavaClassNoBytes ==
  [bytes |-> <<"c", "l", "a", "s", "s", " ", "A", " ", "{", "\n", " ", " ", "a", " ", ".", " ", " ", "B", " ", "m", "(", ")", " ", "{", "\n", " ", " ", "}", "\n", "}", "\n">>,
   nodes |-> <<
     [type |-> "program", is_named |-> TRUE, hasStart |-> TRUE, hasEnd |-> TRUE, hasBytes |-> TRUE,
      start_point |-> <<0, 0>>, end_point |-> <<4, 0>>, start_byte |-> 0, end_byte |-> 31,
      children |-> <<2>>],
     [type |-> "class_declaration", is_named |-> TRUE, hasStart |-> TRUE, hasEnd |-> TRUE, hasBytes |-> TRUE,
      start_point |-> <<0, 0>>, end_point |-> <<3, 1>>, start_byte |-> 0, end_byte |-> 30,
      children |-> <<3, 4, 5>>],
     [type |-> "class", is_named |-> FALSE, hasStart |-> TRUE, hasEnd |-> TRUE, hasBytes |-> TRUE,
      start_point |-> <<0, 0>>, end_point |-> <<0, 5>>, start_byte |-> 0, end_byte |-> 5,
      children |-> <<>>],
     [type |-> "identifier", is_named |-> TRUE, hasStart |-> TRUE, hasEnd |-> TRUE, hasBytes |-> TRUE,
      start_point |-> <<0, 6>>, end_point |-> <<0, 7>>, start_byte |-> 6, end_byte |-> 7,
      children |-> <<>>],
     [type |-> "class_body", is_named |-> TRUE, hasStart |-> TRUE, hasEnd |-> TRUE, hasBytes |-> TRUE,
      start_point |-> <<0, 8>>, end_point |-> <<3, 1>>, start_byte |-> 8, end_byte |-> 30,
      children |-> <<6, 7, 19>>],
     [type |-> "{", is_named |-> FALSE, hasStart |-> TRUE, hasEnd |-> TRUE, hasBytes |-> TRUE,
      start_point |-> <<0, 8>>, end_point |-> <<0, 9>>, start_byte |-> 8, end_byte |-> 9,
      children |-> <<>>],
     [type |-> "method_declaration", is_named |-> TRUE, hasStart |-> TRUE, hasEnd |-> TRUE, hasBytes |-> TRUE,
      start_point |-> <<1, 2>>, end_point |-> <<2, 3>>, start_byte |-> 12, end_byte |-> 28,
      children |-> <<8, 12, 13, 16>>],
     [type |-> "scoped_type_identifier", is_named |-> TRUE, hasStart |-> TRUE, hasEnd |-> TRUE, hasBytes |-> FALSE,
      start_point |-> <<1, 2>>, end_point |-> <<1, 8>>, start_byte |-> 0, end_byte |-> 0,
      children |-> <<9, 10, 11>>],
     [type |-> "type_identifier", is_named |-> TRUE, hasStart |-> TRUE, hasEnd |-> TRUE, hasBytes |-> TRUE,
      start_point |-> <<1, 2>>, end_point |-> <<1, 3>>, start_byte |-> 12, end_byte |-> 13,
      children |-> <<>>],
     [type |-> ".", is_named |-> FALSE, hasStart |-> TRUE, hasEnd |-> TRUE, hasBytes |-> TRUE,
      start_point |-> <<1, 4>>, end_point |-> <<1, 5>>, start_byte |-> 14, end_byte |-> 15,
      children |-> <<>>],
     [type |-> "type_identifier", is_named |-> TRUE, hasStart |-> TRUE, hasEnd |-> TRUE, hasBytes |-> TRUE,
      start_point |-> <<1, 7>>, end_point |-> <<1, 8>>, start_byte |-> 17, end_byte |-> 18,
      children |-> <<>>],
     [type |-> "identifier", is_named |-> TRUE, hasStart |-> TRUE, hasEnd |-> TRUE, hasBytes |-> TRUE,
      start_point |-> <<1, 9>>, end_point |-> <<1, 10>>, start_byte |-> 19, end_byte |-> 20,
      children |-> <<>>],
     [type |-> "formal_parameters", is_named |-> TRUE, hasStart |-> TRUE, hasEnd |-> TRUE, hasBytes |-> TRUE,
      start_point |-> <<1, 10>>, end_point |-> <<1, 12>>, start_byte |-> 20, end_byte |-> 22,
      children |-> <<14, 15>>],
     [type |-> "(", is_named |-> FALSE, hasStart |-> TRUE, hasEnd |-> TRUE, hasBytes |-> TRUE,
      start_point |-> <<1, 10>>, end_point |-> <<1, 11>>, start_byte |-> 20, end_byte |-> 21,
      children |-> <<>>],
     [type |-> ")", is_named |-> FALSE, hasStart |-> TRUE, hasEnd |-> TRUE, hasBytes |-> TRUE,
      start_point |-> <<1, 11>>, end_point |-> <<1, 12>>, start_byte |-> 21, end_byte |-> 22,
      children |-> <<>>],
     [type |-> "block", is_named |-> TRUE, hasStart |-> TRUE, hasEnd |-> TRUE, hasBytes |-> TRUE,
      start_point |-> <<1, 13>>, end_point |-> <<2, 3>>, start_byte |-> 23, end_byte |-> 28,
      children |-> <<17, 18>>],
     [type |-> "{", is_named |-> FALSE, hasStart |-> TRUE, hasEnd |-> TRUE, hasBytes |-> TRUE,
      start_point |-> <<1, 13>>, end_point |-> <<1, 14>>, start_byte |-> 23, end_byte |-> 24,
      children |-> <<>>],
     [type |-> "}", is_named |-> FALSE, hasStart |-> TRUE, hasEnd |-> TRUE, hasBytes |-> TRUE,
      start_point |-> <<2, 2>>, end_point |-> <<2, 3>>, start_byte |-> 27, end_byte |-> 28,
      children |-> <<>>],
     [type |-> "}", is_named |-> FALSE, hasStart |-> TRUE, hasEnd |-> TRUE, hasBytes |-> TRUE,
      start_point |-> <<3, 0>>, end_point |-> <<3, 1>>, start_byte |-> 29, end_byte |-> 30,
      children |-> <<>>]
   >>]

\* PyDef whose identifier node exposes no start_byte / end_byte
PyDefNoBytes ==
  [bytes |-> <<"d", "e", "f", " ", "f", "o", "o", "(", ")", ":", "\n", " ", " ", " ", " ", "p", "a", "s", "s", "\n">>,
   nodes |-> <<
     [type |-> "module", is_named |-> TRUE, hasStart |-> TRUE, hasEnd |-> TRUE, hasBytes |-> TRUE,
      start_point |-> <<0, 0>>, end_point |-> <<2, 0>>, start_byte |-> 0, end_byte |-> 20,
      children |-> <<2>>],
     [type |-> "function_definition", is_named |-> TRUE, hasStart |-> TRUE, hasEnd |-> TRUE, hasBytes |-> TRUE,
      start_point |-> <<0, 0>>, end_point |-> <<1, 8>>, start_byte |-> 0, end_byte |-> 19,
      children |-> <<3, 4, 5, 8, 9>>],
     [type |-> "def", is_named |-> FALSE, hasStart |-> TRUE, hasEnd |-> TRUE, hasBytes |-> TRUE,
      start_point |-> <<0, 0>>, end_point |-> <<0, 3>>, start_byte |-> 0, end_byte |-> 3,
      children |-> <<>>],
     [type |-> "identifier", is_named |-> TRUE, hasStart |-> TRUE, hasEnd |-> TRUE, hasBytes |-> FALSE,
      start_point |-> <<0, 4>>, end_point |-> <<0, 7>>, start_byte |-> 0, end_byte |-> 0,
      children |-> <<>>],
     [type |-> "parameters", is_named |-> TRUE, hasStart |-> TRUE, hasEnd |-> TRUE, hasBytes |-> TRUE,
      start_point |-> <<0, 7>>, end_point |-> <<0, 9>>, start_byte |-> 7, end_byte |-> 9,
      children |-> <<6, 7>>],
     [type |-> "(", is_named |-> FALSE, hasStart |-> TRUE, hasEnd |-> TRUE, hasBytes |-> TRUE,
      start_point |-> <<0, 7>>, end_point |-> <<0, 8>>, start_byte |-> 7, end_byte |-> 8,
      children |-> <<>>],
     [type |-> ")", is_named |-> FALSE, hasStart |-> TRUE, hasEnd |-> TRUE, hasBytes |-> TRUE,
      start_point |-> <<0, 8>>, end_point |-> <<0, 9>>, start_byte |-> 8, end_byte |-> 9,
      children |-> <<>>],
     [type |-> ":", is_named |-> FALSE, hasStart |-> TRUE, hasEnd |-> TRUE, hasBytes |-> TRUE,
      start_point |-> <<0, 9>>, end_point |-> <<0, 10>>, start_byte |-> 9, end_byte |-> 10,
      children |-> <<>>],
     [type |-> "block", is_named |-> TRUE, hasStart |-> TRUE, hasEnd |-> TRUE, hasBytes |-> TRUE,
      start_point |-> <<1, 4>>, end_point |-> <<1, 8>>, start_byte |-> 15, end_byte |-> 19,
      children |-> <<10>>],
     [type |-> "pass_statement", is_named |-> TRUE, hasStart |-> TRUE, hasEnd |-> TRUE, hasBytes |-> TRUE,
      start_point |-> <<1, 4>>, end_point |-> <<1, 8>>, start_byte |-> 15, end_byte |-> 19,
      children |-> <<>>]
   >>]

\* The characters of each type string of the corpus.
TypeChars(t) ==
  CASE t = "(" -> <<"(">>
    [] t = ")" -> <<")">>
    [] t = "." -> <<".">>
    [] t = ":" -> <<":">>
    [] t = "=" -> <<"=">>
    [] t = "assignment" -> <<"a", "s", "s", "i", "g", "n", "m", "e", "n", "t">>
    [] t = "begin\nend" -> <<"b", "e", "g", "i", "n", "\n", "e", "n", "d">>
    [] t = "block" -> <<"b", "l", "o", "c", "k">>
    [] t = "class" -> <<"c", "l", "a", "s", "s">>
    [] t = "class_body" -> <<"c", "l", "a", "s", "s", "_", "b", "o", "d", "y">>
    [] t = "class_declaration" -> <<"c", "l", "a", "s", "s", "_", "d", "e", "c", "l", "a", "r", "a", "t", "i", "o", "n">>
    [] t = "class_definition" -> <<"c", "l", "a", "s", "s", "_", "d", "e", "f", "i", "n", "i", "t", "i", "o", "n">>
    [] t = "comment" -> <<"c", "o", "m", "m", "e", "n", "t">>
    [] t = "compound_statement" -> <<"c", "o", "m", "p", "o", "u", "n", "d", "_", "s", "t", "a", "t", "e", "m", "e", "n", "t">>
    [] t = "def" -> <<"d", "e", "f">>
    [] t = "document" -> <<"d", "o", "c", "u", "m", "e", "n", "t">>
    [] t = "expression_statement" -> <<"e", "x", "p", "r", "e", "s", "s", "i", "o", "n", "_", "s", "t", "a", "t", "e", "m", "e", "n", "t">>
    [] t = "formal_parameters" -> <<"f", "o", "r", "m", "a", "l", "_", "p", "a", "r", "a", "m", "e", "t", "e", "r", "s">>
    [] t = "function" -> <<"f", "u", "n", "c", "t", "i", "o", "n">>
    [] t = "function_declarator" -> <<"f", "u", "n", "c", "t", "i", "o", "n", "_", "d", "e", "c", "l", "a", "r", "a", "t", "o", "r">>
    [] t = "function_definition" -> <<"f", "u", "n", "c", "t", "i", "o", "n", "_", "d", "e", "f", "i", "n", "i", "t", "i", "o", "n">>
    [] t = "identifier" -> <<"i", "d", "e", "n", "t", "i", "f", "i", "e", "r">>
    [] t = "integer" -> <<"i", "n", "t", "e", "g", "e", "r">>
    [] t = "method_declaration" -> <<"m", "e", "t", "h", "o", "d", "_", "d", "e", "c", "l", "a", "r", "a", "t", "i", "o", "n">>
    [] t = "module" -> <<"m", "o", "d", "u", "l", "e">>
    [] t = "name" -> <<"n", "a", "m", "e">>
    [] t = "parameter_list" -> <<"p", "a", "r", "a", "m", "e", "t", "e", "r", "_", "l", "i", "s", "t">>
    [] t = "parameters" -> <<"p", "a", "r", "a", "m", "e", "t", "e", "r", "s">>
    [] t = "pass_statement" -> <<"p", "a", "s", "s", "_", "s", "t", "a", "t", "e", "m", "e", "n", "t">>
    [] t = "php_tag" -> <<"p", "h", "p", "_", "t", "a", "g">>
    [] t = "primitive_type" -> <<"p", "r", "i", "m", "i", "t", "i", "v", "e", "_", "t", "y", "p", "e">>
    [] t = "program" -> <<"p", "r", "o", "g", "r", "a", "m">>
    [] t = "scoped_type_identifier" -> <<"s", "c", "o", "p", "e", "d", "_", "t", "y", "p", "e", "_", "i", "d", "e", "n", "t", "i", "f", "i", "e", "r">>
    [] t = "translation_unit" -> <<"t", "r", "a", "n", "s", "l", "a", "t", "i", "o", "n", "_", "u", "n", "i", "t">>
    [] t = "type_identifier" -> <<"t", "y", "p", "e", "_", "i", "d", "e", "n", "t", "i", "f", "i", "e", "r">>
    [] t = "{" -> <<"{">>
    [] t = "}" -> <<"}">>

\* The trees of a library that keeps the collaborator contract.
ContractCorpus ==
  {PyEmpty, PyAssign, PyDef, PyClass, PyLead, PyComment, CFunc, JavaClass,
   AnonToken, PhpFunc}

\* The trees of a library whose node objects lack attributes.
DriftCorpus ==
  {PyClassNoPos, PyClassBlockNoPos, PyClassNoEnd, JavaClassNoBytes, PyDefNoBytes}

Corpus(lib) == IF lib = "contract" THEN ContractCorpus ELSE ContractCorpus \cup DriftCorpus

\* The byte strings standard input delivers.
Sources == {s.bytes : s \in ContractCorpus}

\* ------------------------------------------------------------ pure helpers

Min(S) == CHOOSE x \in S : \A y \in S : x <= y
Max(S) == CHOOSE x \in S : \A y \in S : y <= x

RECURSIVE Concat(_)
Concat(ss) == IF ss = <<>> THEN <<>> ELSE Head(ss) \o Concat(Tail(ss))

\* t occurs in s as a substring: Python's `t in s` on strings.
HasSubstring(s, t) ==
  \E i \in 1..(Len(s) - Len(t) + 1) : SubSeq(s, i, i + Len(t) - 1) = t

PointLT(a, b) == a[1] < b[1] \/ (a[1] = b[1] /\ a[2] < b[2])
PointLE(a, b) == a = b \/ PointLT(a, b)

\* ------------------------------------------------------------------ int()

Digits == {"0", "1", "2", "3", "4", "5", "6", "7", "8", "9"}

DigitValue(c) ==
  CASE c = "0" -> 0 [] c = "1" -> 1 [] c = "2" -> 2 [] c = "3" -> 3 [] c = "4" -> 4
    [] c = "5" -> 5 [] c = "6" -> 6 [] c = "7" -> 7 [] c = "8" -> 8 [] c = "9" -> 9

Unsigned(s) == IF s # <<>> /\ Head(s) \in {"+", "-"} THEN Tail(s) ELSE s

\* int(s) does not raise: an optional sign, then one or more digits.
IntParses(s) ==
  /\ Unsigned(s) # <<>>
  /\ \A i \in 1..Len(Unsigned(s)) : Unsigned(s)[i] \in Digits

RECURSIVE DigitsValue(_)
DigitsValue(s) ==
  IF s = <<>> THEN 0
  ELSE 10 * DigitsValue(SubSeq(s, 1, Len(s) - 1)) + DigitValue(s[Len(s)])

IntValue(s) ==
  IF Head(s) = "-" THEN 0 - DigitsValue(Unsigned(s)) ELSE DigitsValue(Unsigned(s))

\* The strings an argument is drawn from.
ArgStrings == {<<"1">>, <<"3">>, <<"a">>, <<"+", "0">>}

ArgLists == UNION {[1..n -> ArgStrings] : n \in 0..MaxArgs}

\* ------------------------------------------------------------------- text

Whitespace == {" ", "\n", "\t", "\r"}

\* source_bytes[a:b]
Slice(bytes, a, b) ==
  IF a < b /\ a < Len(bytes)
  THEN SubSeq(bytes, a + 1, IF b < Len(bytes) THEN b ELSE Len(bytes))
  ELSE <<>>

\* .decode("utf8", "replace"): a byte that is no UTF-8 becomes U+FFFD.
Decode(bytes) == [i \in 1..Len(bytes) |-> IF bytes[i] = "xFF" THEN "uFFFD" ELSE bytes[i]]

\* " ".join(text.split())
RECURSIVE JoinSplitFrom(_, _, _)
JoinSplitFrom(s, acc, gap) ==
  IF s = <<>> THEN acc
  ELSE IF Head(s) \in Whitespace
       THEN JoinSplitFrom(Tail(s), acc, acc # <<>>)
       ELSE JoinSplitFrom(Tail(s), (IF gap THEN Append(acc, " ") ELSE acc) \o <<Head(s)>>, FALSE)

JoinSplit(s) == JoinSplitFrom(s, <<>>, FALSE)

\* text[:max_text - 3] + "..." when len(text) > max_text
Truncate(text) ==
  IF Len(text) > max_text
  THEN SubSeq(text, 1, max_text - 3) \o <<".", ".", ".">>
  ELSE text

\* ------------------------------------------------------------ node_to_dict

HasPoints(n) == n.hasStart /\ n.hasEnd

NodeText(n, bytes) ==
  LET sb == IF n.hasBytes THEN n.start_byte ELSE 0
      eb == IF n.hasBytes THEN n.end_byte ELSE 0
  IN Truncate(JoinSplit(Decode(Slice(bytes, sb, eb))))

node_to_dict(n, bytes, include_text) ==
  LET sp == IF HasPoints(n) THEN n.start_point ELSE <<0, 0>>
      ep == IF HasPoints(n) THEN n.end_point ELSE <<0, 0>>
      sb == IF n.hasBytes THEN n.start_byte ELSE 0
      eb == IF n.hasBytes THEN n.end_byte ELSE 0
  IN IF include_text
     THEN [json |-> "object", type |-> n.type, named |-> n.is_named,
           start_point |-> sp, end_point |-> ep, start_byte |-> sb, end_byte |-> eb,
           text |-> NodeText(n, bytes)]
     ELSE [json |-> "object", type |-> n.type, named |-> n.is_named,
           start_point |-> sp, end_point |-> ep, start_byte |-> sb, end_byte |-> eb]

\* --------------------------------------------------------------- walk_node

RECURSIVE walk_node(_, _, _)
walk_node(nodes, i, bytes) ==
  LET d == node_to_dict(nodes[i], bytes, TRUE)
      kids == nodes[i].children
  IN [json |-> "object", type |-> d.type, named |-> d.named,
      start_point |-> d.start_point, end_point |-> d.end_point,
      start_byte |-> d.start_byte, end_byte |-> d.end_byte, text |-> d.text,
      children |-> [k \in 1..Len(kids) |-> walk_node(nodes, kids[k], bytes)]]

\* -------------------------------------------------- find_smallest_named_at

\* The library's descent for the point p, from node n: the first child whose
\* end lies after p is entered when it starts at or before p; the last named
\* node entered is the answer, the start node when none was.
RECURSIVE Descend(_, _, _, _)
Descend(nodes, n, p, last) ==
  LET kids == nodes[n].children
      cand == {k \in 1..Len(kids) : PointLT(p, nodes[kids[k]].end_point)}
  IN IF cand = {} THEN last
     ELSE LET c == kids[Min(cand)]
          IN IF PointLT(p, nodes[c].start_point) THEN last
             ELSE Descend(nodes, c, p, IF nodes[c].is_named THEN c ELSE last)

\* root.named_descendant_for_point_range((row, col), (row, col)): the nodes it
\* may return, 0 standing for an exception. Over nodes that lack their points
\* the lookup is not determined: it raises or returns any named node.
named_descendant_for_point_range(nodes, row, col) ==
  IF \A i \in 1..Len(nodes) : HasPoints(nodes[i])
  THEN {Descend(nodes, 1, <<row, col>>, 1)}
  ELSE {0} \cup {i \in 1..Len(nodes) : nodes[i].is_named}

\* The nodes find_smallest_named_at may return, 0 standing for None.
find_smallest_named_at(nodes, row, col) ==
  named_descendant_for_point_range(nodes, row, col)

\* ------------------------------------------------------------------- sort

\* list.sort(key=lambda n: (n.start_point[0], n.start_point[1])) raises when
\* the key of an element cannot be computed.
SortRaises(nodes, out) == \E i \in 1..Len(out) : ~nodes[out[i]].hasStart

\* One insertion of the stable sort: n goes after every element whose key is
\* not greater than its own.
InsertByStart(nodes, sorted, n) ==
  LET le == {i \in 1..Len(sorted) :
               PointLE(nodes[sorted[i]].start_point, nodes[n].start_point)}
      j == IF le = {} THEN 0 ELSE Max(le)
  IN SubSeq(sorted, 1, j) \o <<n>> \o SubSeq(sorted, j + 1, Len(sorted))

RECURSIVE SortByStart(_, _)
SortByStart(nodes, out) ==
  IF out = <<>> THEN <<>>
  ELSE InsertByStart(nodes, SortByStart(nodes, SubSeq(out, 1, Len(out) - 1)), out[Len(out)])

\* --------------------------------------------------------- collect_symbols

RECURSIVE symbols_visit(_, _, _)

\* A visit that does not look inside a node it has collected.
symbols_visit_NoNested(nodes, i, symbol_types) ==
  LET kids == nodes[i].children
  IN IF nodes[i].type \in symbol_types THEN <<i>>
     ELSE Concat([k \in 1..Len(kids) |-> symbols_visit(nodes, kids[k], symbol_types)])

symbols_visit(nodes, i, symbol_types) ==
  LET kids == nodes[i].children
  IN (IF nodes[i].type \in symbol_types THEN <<i>> ELSE <<>>)
     \o Concat([k \in 1..Len(kids) |-> symbols_visit(nodes, kids[k], symbol_types)])

\* [raised, out]: the sort raised, or the nodes collected, sorted.
collect_symbols(nodes) ==
  LET out == symbols_visit(nodes, 1, DEFAULT_SYMBOL_NODE_TYPES)
  IN IF SortRaises(nodes, out)
     THEN [raised |-> TRUE, out |-> <<>>]
     ELSE [raised |-> FALSE, out |-> SortByStart(nodes, out)]

\* ----------------------------------------------------------- collect_folds

RECURSIVE folds_visit(_, _)

\* A visit that admits a node whose end row equals its start row.
folds_visit_Geq(nodes, i) ==
  LET kids == nodes[i].children
  IN IF ~HasPoints(nodes[i]) THEN <<>>
     ELSE (IF nodes[i].end_point[1] >= nodes[i].start_point[1] THEN <<i>> ELSE <<>>)
          \o Concat([k \in 1..Len(kids) |-> folds_visit(nodes, kids[k])])

folds_visit(nodes, i) ==
  LET kids == nodes[i].children
  IN IF ~HasPoints(nodes[i]) THEN <<>>
     ELSE (IF nodes[i].end_point[1] > nodes[i].start_point[1] THEN <<i>> ELSE <<>>)
          \o Concat([k \in 1..Len(kids) |-> folds_visit(nodes, kids[k])])

collect_folds(nodes) == SortByStart(nodes, folds_visit(nodes, 1))

\* ------------------------------------------------- the name of a symbol

\* 'name' in ctype or 'identifier' in ctype or ctype == 'identifier'
NameLike(ctype) ==
  \/ HasSubstring(TypeChars(ctype), TypeChars("name"))
  \/ HasSubstring(TypeChars(ctype), TypeChars("identifier"))
  \/ ctype = "identifier"

\* The loop of main() over the children of a symbol, from the k-th on: the
\* text of a name-like child ends it; when reading the child's bytes raises,
\* name is None again and the loop goes on.
RECURSIVE symbol_name(_, _, _, _)
symbol_name(nodes, kids, k, bytes) ==
  IF k > Len(kids) THEN JNull
  ELSE LET c == nodes[kids[k]]
       IN IF NameLike(c.type) /\ c.hasBytes
          THEN JString(JoinSplit(Decode(Slice(bytes, c.start_byte, c.end_byte))))
          ELSE symbol_name(nodes, kids, k + 1, bytes)

symbol_record(nodes, i, bytes) ==
  LET d == node_to_dict(nodes[i], bytes, FALSE)
  IN [json |-> "object", type |-> d.type, named |-> d.named,
      start_point |-> d.start_point, end_point |-> d.end_point,
      start_byte |-> d.start_byte, end_byte |-> d.end_byte,
      name |-> symbol_name(nodes, nodes[i].children, 1, bytes)]

fold_record(n) ==
  [json |-> "object", type |-> n.type,
   start_point |-> n.start_point, end_point |-> n.end_point,
   start_byte |-> IF n.hasBytes THEN n.start_byte ELSE 0,
   end_byte |-> IF n.hasBytes THEN n.end_byte ELSE 0]

node_at_record(nodes, i, bytes) ==
  LET d == node_to_dict(nodes[i], bytes, TRUE)
  IN [json |-> "object", type |-> d.type, named |-> d.named,
      start_point |-> d.start_point, end_point |-> d.end_point,
      start_byte |-> d.start_byte, end_byte |-> d.end_byte, text |-> d.text,
      children_count |-> Len(nodes[i].children)]

\* ------------------------------------------------ loading and construction

Packages == {"missing", "no_language", "language_raises", "Language", "wrappable", "raw"}

\* load_language(args.lang): it raises, or returns a Language (the package's
\* own, or its object wrapped) or the raw object that could not be wrapped.
load_language(pkg) ==
  CASE pkg \in {"missing", "no_language", "language_raises"} -> [raised |-> TRUE, value |-> "none"]
    [] pkg \in {"Language", "wrappable"} -> [raised |-> FALSE, value |-> "Language"]
    [] pkg = "raw" -> [raised |-> FALSE, value |-> "raw"]

\* How the library's Parser answers the two conventions.
ParserApis ==
  {[ctor |-> c, set_language |-> s] :
     c \in {"ok", "TypeError", "Exception"}, s \in {"ok", "raises"}}

\* make_parser_for_language(lang): Parser(lang), and on any exception
\* Parser() followed by set_language(lang), whose exception propagates.
make_parser_for_language(api) ==
  IF api.ctor = "ok" THEN [raised |-> FALSE, value |-> "Parser(lang)"]
  ELSE IF api.set_language = "ok" THEN [raised |-> FALSE, value |-> "set_language"]
  ELSE [raised |-> TRUE, value |-> "none"]

\* ------------------------------------------------- the command branches
\* Each branch gives the outcomes it may have: the exit status it ends the
\* process with (0: it goes on to print doc), the message it writes to
\* standard error, and the tree-walking functions it called.

Outcome(code, err, d, called) == [exit |-> code, err |-> err, doc |-> d, calls |-> called]

\* An ast branch that prints the empty array for an absent root.
ast_branch_EmptyArray(r, bytes) ==
  IF ~r.present THEN {Outcome(0, "", JArray(<<>>), {})}
  ELSE {Outcome(0, "", walk_node(r.nodes, 1, bytes), {"walk_node", "node_to_dict"})}

ast_branch(r, bytes) ==
  IF ~r.present THEN {Outcome(0, "", EmptyObject, {})}
  ELSE {Outcome(0, "", walk_node(r.nodes, 1, bytes), {"walk_node", "node_to_dict"})}

\* A node_at branch that looks at the root before it looks at its arguments.
node_at_branch_RootFirst(a, r, bytes) ==
  IF ~r.present THEN {Outcome(0, "", EmptyObject, {})}
  ELSE IF Len(a) < 2 THEN {Outcome(7, "node_at requires ROW COL", EmptyObject, {})}
  ELSE IF ~IntParses(a[1]) \/ ~IntParses(a[2])
  THEN {Outcome(8, "Invalid ROW/COL", EmptyObject, {})}
  ELSE {IF i = 0
        THEN Outcome(0, "", EmptyObject, {"find_smallest_named_at"})
        ELSE Outcome(0, "", node_at_record(r.nodes, i, bytes),
                     {"find_smallest_named_at", "node_to_dict"}) :
          i \in find_smallest_named_at(r.nodes, IntValue(a[1]), IntValue(a[2]))}

node_at_branch(a, r, bytes) ==
  IF Len(a) < 2 THEN {Outcome(7, "node_at requires ROW COL", EmptyObject, {})}
  ELSE IF ~IntParses(a[1]) \/ ~IntParses(a[2])
  THEN {Outcome(8, "Invalid ROW/COL", EmptyObject, {})}
  ELSE IF ~r.present THEN {Outcome(0, "", EmptyObject, {})}
  ELSE {IF i = 0
        THEN Outcome(0, "", EmptyObject, {"find_smallest_named_at"})
        ELSE Outcome(0, "", node_at_record(r.nodes, i, bytes),
                     {"find_smallest_named_at", "node_to_dict"}) :
          i \in find_smallest_named_at(r.nodes, IntValue(a[1]), IntValue(a[2]))}

symbols_branch(r, bytes) ==
  IF ~r.present THEN {Outcome(0, "", JArray(<<>>), {})}
  ELSE LET syms == collect_symbols(r.nodes)
       IN IF syms.raised
          THEN {Outcome(1, "Traceback", JArray(<<>>), {"collect_symbols"})}
          ELSE {Outcome(0, "",
                        JArray([k \in 1..Len(syms.out) |->
                                  symbol_record(r.nodes, syms.out[k], bytes)]),
                        IF syms.out = <<>> THEN {"collect_symbols"}
                        ELSE {"collect_symbols", "node_to_dict"})}

\* A folds branch that prints the empty object for an absent root.
folds_branch_EmptyObject(r) ==
  IF ~r.present THEN {Outcome(0, "", EmptyObject, {})}
  ELSE LET out == collect_folds(r.nodes)
       IN {Outcome(0, "", JArray([k \in 1..Len(out) |-> fold_record(r.nodes[out[k]])]),
                   {"collect_folds"})}

folds_branch(r) ==
  IF ~r.present THEN {Outcome(0, "", JArray(<<>>), {})}
  ELSE LET out == collect_folds(r.nodes)
       IN {Outcome(0, "", JArray([k \in 1..Len(out) |-> fold_record(r.nodes[out[k]])]),
                   {"collect_folds"})}

\* ----------------------------------------------------------------- main()

InitWith(libs) ==
  /\ cmd \in Commands
  /\ args \in ArgLists
  /\ package \in Packages
  /\ library \in libs
  /\ pc = "load"
  /\ lang = "none"
  /\ parser = "none"
  /\ stdin_read = FALSE
  /\ source_bytes = <<>>
  /\ root = None
  /\ doc = EmptyObject
  /\ stdout = <<>>
  /\ stderr = <<>>
  /\ exit_code = Running
  /\ steps = <<>>
  /\ calls = {}

Init == InitWith({"contract"})

InitDrift == InitWith({"contract", "drift"})

\* An exit that writes no message.
ExitSilent(code, message) ==
  /\ stderr' = stderr
  /\ exit_code' = code
  /\ pc' = "exited"

\* sys.exit(code) after a message on standard error.
Exit(code, message) ==
  /\ stderr' = Append(stderr, message)
  /\ exit_code' = code
  /\ pc' = "exited"

\* A main() that reads standard input before it loads the language.
LoadLanguage_ReadsFirst ==
  /\ pc = "load"
  /\ steps' = Append(steps, "load")
  /\ stdin_read' = TRUE
  /\ LET res == load_language(package)
     IN IF res.raised
        THEN Exit(4, "Error loading language") /\ lang' = lang
        ELSE /\ lang' = res.value
             /\ pc' = "build"
             /\ UNCHANGED <<stderr, exit_code>>
  /\ UNCHANGED <<cmd, args, package, library, parser, source_bytes,
                 root, doc, stdout, calls>>

LoadLanguage ==
  /\ pc = "load"
  /\ steps' = Append(steps, "load")
  /\ LET res == load_language(package)
     IN IF res.raised
        THEN Exit(4, "Error loading language") /\ lang' = lang
        ELSE /\ lang' = res.value
             /\ pc' = "build"
             /\ UNCHANGED <<stderr, exit_code>>
  /\ UNCHANGED <<cmd, args, package, library, parser, stdin_read, source_bytes,
                 root, doc, stdout, calls>>

MakeParser ==
  /\ pc = "build"
  /\ steps' = Append(steps, "build")
  /\ \E api \in ParserApis :
       LET res == make_parser_for_language(api)
       IN IF res.raised
          THEN Exit(5, "Failed to construct parser") /\ parser' = parser
          ELSE /\ parser' = res.value
               /\ pc' = "read"
               /\ UNCHANGED <<stderr, exit_code>>
  /\ UNCHANGED <<cmd, args, package, library, lang, stdin_read, source_bytes,
                 root, doc, stdout, calls>>

\* sys.stdin.buffer.read() or b"": a read that raises leaves the empty buffer,
\* which Sources holds too.
ReadStdin ==
  /\ pc = "read"
  /\ steps' = Append(steps, "read")
  /\ stdin_read' = TRUE
  /\ source_bytes' \in Sources
  /\ pc' = "parse"
  /\ UNCHANGED <<cmd, args, package, library, lang, parser, root, doc, stdout,
                 stderr, exit_code, calls>>

\* parser.parse(source_bytes) and tree.root_node: a tree of the library for
\* these bytes, or an exception, which leaves root None.
Parse ==
  /\ pc = "parse"
  /\ steps' = Append(steps, "parse")
  /\ \/ \E t \in Corpus(library) :
          /\ t.bytes = source_bytes
          /\ root' = [present |-> TRUE, nodes |-> t.nodes]
     \/ root' = None
  /\ pc' = "dispatch"
  /\ UNCHANGED <<cmd, args, package, library, lang, parser, stdin_read,
                 source_bytes, doc, stdout, stderr, exit_code, calls>>

\* The end of a branch: it hands doc to print, or leaves the process.
Finish(o) ==
  /\ steps' = Append(steps, "render")
  /\ calls' = calls \cup o.calls
  /\ IF o.exit = 0
     THEN /\ doc' = o.doc
          /\ pc' = "print"
          /\ UNCHANGED <<stderr, exit_code>>
     ELSE /\ Exit(o.exit, o.err)
          /\ doc' = doc
  /\ UNCHANGED <<cmd, args, package, library, lang, parser, stdin_read,
                 source_bytes, root, stdout>>

CmdAst ==
  /\ pc = "dispatch"
  /\ cmd = "ast"
  /\ \E o \in ast_branch(root, source_bytes) : Finish(o)

CmdNodeAt ==
  /\ pc = "dispatch"
  /\ cmd = "node_at"
  /\ \E o \in node_at_branch(args, root, source_bytes) : Finish(o)

CmdSymbols ==
  /\ pc = "dispatch"
  /\ cmd = "symbols"
  /\ \E o \in symbols_branch(root, source_bytes) : Finish(o)

CmdFolds ==
  /\ pc = "dispatch"
  /\ cmd = "folds"
  /\ \E o \in folds_branch(root) : Finish(o)

\* print(json.dumps(doc))
PrintJson ==
  /\ pc = "print"
  /\ steps' = Append(steps, "print")
  /\ stdout' = Append(stdout, doc)
  /\ pc' = "return"
  /\ UNCHANGED <<cmd, args, package, library, lang, parser, stdin_read,
                 source_bytes, root, doc, stderr, exit_code, calls>>

\* return from main(): the process exits with status 0.
Return ==
  /\ pc = "return"
  /\ exit_code' = 0
  /\ pc' = "exited"
  /\ UNCHANGED <<cmd, args, package, library, lang, parser, stdin_read,
                 source_bytes, root, doc, stdout, stderr, steps, calls>>

Next ==
  \/ LoadLanguage
  \/ MakeParser
  \/ ReadStdin
  \/ Parse
  \/ CmdAst
  \/ CmdNodeAt
  \/ CmdSymbols
  \/ CmdFolds
  \/ PrintJson
  \/ Return

Spec == Init /\ [][Next]_vars

SpecDrift == InitDrift /\ [][Next]_vars

\* ------------------------------------------------------------- the claims

Exited == pc = "exited"

\* The positional arguments the command needs are there and are integers.
ArgsWellFormed ==
  cmd = "node_at" => Len(args) >= 2 /\ IntParses(args[1]) /\ IntParses(args[2])

\* The empty shape of a command: {} for ast and node_at, [] for symbols and folds.
EmptyShape(c) == IF c \in {"ast", "node_at"} THEN EmptyObject ELSE JArray(<<>>)

\* A record of the output is the record of node n: its type, points and bytes.
RecordOf(rec, n) ==
  /\ rec.type = n.type
  /\ rec.start_point = n.start_point
  /\ rec.end_point = n.end_point
  /\ rec.start_byte = n.start_byte
  /\ rec.end_byte = n.end_byte

\* C1: a run that ends with exit code 0 has printed exactly one JSON document;
\* a run that ends with any other exit code has written a message to standard
\* error and nothing to standard output.
C1_ExitContract ==
  /\ exit_code = 0 => Len(stdout) = 1
  /\ (Exited /\ exit_code # 0) => stderr # <<>> /\ stdout = <<>>
  /\ Len(stdout) <= 1

C1_Witness ==
  /\ exit_code = 8
  /\ stderr = <<"Invalid ROW/COL">>
  /\ stdout = <<>>

C3_ParseRaised ==
  (Exited /\ Len(steps) >= 5 /\ ~root.present /\ ArgsWellFormed)
    => exit_code = 0 /\ stdout = <<EmptyShape(cmd)>> /\ calls = {}

C3_Witness ==
  /\ Exited /\ Len(steps) >= 5 /\ ~root.present
  /\ cmd = "folds" /\ source_bytes # <<>>
  /\ stdout = <<JArray(<<>>)>>

\* The point (row, col) lies before the start or after the end of the root.
OutsideRoot(nodes, row, col) ==
  \/ PointLT(<<row, col>>, nodes[1].start_point)
  \/ PointLT(nodes[1].end_point, <<row, col>>)

\* C4: node_at prints {} for every integer pair (ROW, COL) outside the span of
\* the root, never a node record.
C4_OutsideRootIsEmpty ==
  (/\ cmd = "node_at" /\ Len(stdout) = 1 /\ root.present
   /\ OutsideRoot(root.nodes, IntValue(args[1]), IntValue(args[2])))
    => stdout[1] = EmptyObject

\* C5: node_at with fewer than two positional arguments exits with 7, and with
\* two or more of which the first or second is no integer with 8, both with
\* empty standard output, the count check first, the root present or absent.
C5_ArgumentChecks ==
  (Exited /\ cmd = "node_at" /\ Len(steps) >= 5)
    => /\ Len(args) < 2 => exit_code = 7 /\ stdout = <<>>
       /\ (Len(args) >= 2 /\ (~IntParses(args[1]) \/ ~IntParses(args[2])))
            => exit_code = 8 /\ stdout = <<>>
       /\ ArgsWellFormed => exit_code = 0

C5_Witness ==
  /\ Exited /\ cmd = "node_at" /\ ~root.present /\ Len(steps) >= 5
  /\ Len(args) >= 2 /\ IntParses(args[1]) /\ ~IntParses(args[2])
  /\ exit_code = 8

\* The nodes of S in ascending (start point, pre-order index) order.
InStartOrder(nodes, S) ==
  CHOOSE f \in [1..Cardinality(S) -> S] :
    \A a, b \in 1..Cardinality(S) :
      a < b => \/ PointLT(nodes[f[a]].start_point, nodes[f[b]].start_point)
               \/ /\ nodes[f[a]].start_point = nodes[f[b]].start_point
                  /\ f[a] < f[b]

\* C6: the folds output holds exactly one record for each node whose end row is
\* greater than its start row and none for another node, in ascending
\* (start_row, start_column) order, equal start points in pre-order.
C6_Folds ==
  (cmd = "folds" /\ Len(stdout) = 1 /\ root.present)
    => LET nodes == root.nodes
           multi == {i \in 1..Len(nodes) : nodes[i].end_point[1] > nodes[i].start_point[1]}
           want == InStartOrder(nodes, multi)
       IN /\ stdout[1].json = "array"
          /\ Len(stdout[1].items) = Len(want)
          /\ \A k \in 1..Len(want) : RecordOf(stdout[1].items[k], nodes[want[k]])

C6_Witness ==
  /\ cmd = "folds" /\ Len(stdout) = 1 /\ root.present
  /\ \E k \in 1..(Len(stdout[1].items) - 1) :
       stdout[1].items[k].start_point = stdout[1].items[k + 1].start_point
  /\ \E i \in 1..Len(root.nodes) :
       ~root.nodes[i].is_named /\ root.nodes[i].end_point[1] > root.nodes[i].start_point[1]

\* C7: the symbols output is in ascending (start_row, start_column) order, the
\* type of every record is in DEFAULT_SYMBOL_NODE_TYPES, and every node whose
\* type is in that list, nested in another such node or not, appears once.
C7_Symbols ==
  (cmd = "symbols" /\ Len(stdout) = 1 /\ root.present)
    => LET nodes == root.nodes
           items == stdout[1].items
           syms == {i \in 1..Len(nodes) : nodes[i].type \in DEFAULT_SYMBOL_NODE_TYPES}
       IN /\ stdout[1].json = "array"
          /\ \A k \in 1..(Len(items) - 1) :
               PointLE(items[k].start_point, items[k + 1].start_point)
          /\ \A k \in 1..Len(items) : items[k].type \in DEFAULT_SYMBOL_NODE_TYPES
          /\ Len(items) = Cardinality(syms)
          /\ \A i \in syms :
               Cardinality({k \in 1..Len(items) : RecordOf(items[k], nodes[i])}) = 1

C7_Witness ==
  /\ cmd = "symbols" /\ Len(stdout) = 1 /\ root.present
  /\ \E j, k \in 1..Len(stdout[1].items) :
       /\ j < k
       /\ stdout[1].items[j].start_byte < stdout[1].items[k].start_byte
       /\ stdout[1].items[k].end_byte <= stdout[1].items[j].end_byte

\* The name the claim gives a symbol: the text of the first direct child whose
\* type is name-like, null when there is none or its text cannot be read.
FirstNameLike(nodes, i) ==
  {k \in 1..Len(nodes[i].children) :
     /\ NameLike(nodes[nodes[i].children[k]].type)
     /\ \A j \in 1..(k - 1) : ~NameLike(nodes[nodes[i].children[j]].type)}

ClaimedName(nodes, i, bytes) ==
  IF FirstNameLike(nodes, i) = {} THEN JNull
  ELSE LET c == nodes[nodes[i].children[CHOOSE k \in FirstNameLike(nodes, i) : TRUE]]
       IN IF c.hasBytes
          THEN JString(JoinSplit(Decode(Slice(bytes, c.start_byte, c.end_byte))))
          ELSE JNull

\* C8: the name of a symbol record comes from the first direct child whose type
\* contains "name" or "identifier": its whitespace-normalized text, or null
\* when no direct child qualifies or the text of that first child cannot be
\* read; a later qualifying child never supplies the name.
C8_FirstChildNames ==
  (cmd = "symbols" /\ Len(stdout) = 1 /\ root.present)
    => LET syms == collect_symbols(root.nodes).out
       IN \A k \in 1..Len(syms) :
            stdout[1].items[k].name = ClaimedName(root.nodes, syms[k], source_bytes)

\* Some node of the tree lacks start_point or end_point.
LacksPoints(nodes) == \E i \in 1..Len(nodes) : ~HasPoints(nodes[i])

\* C9: a node without start_point / end_point never aborts the process: the run
\* exits with 0 and one JSON document, the fields of that node are zero, and
\* the rest of the tree, its descendants too, is rendered as usual.
C9_MissingPointsAreSoft ==
  (Exited /\ root.present /\ LacksPoints(root.nodes) /\ ArgsWellFormed)
    => /\ exit_code = 0
       /\ Len(stdout) = 1
       /\ cmd = "folds" =>
            \A i \in 1..Len(root.nodes) :
              (/\ HasPoints(root.nodes[i])
               /\ root.nodes[i].end_point[1] > root.nodes[i].start_point[1])
                => \E k \in 1..Len(stdout[1].items) :
                     RecordOf(stdout[1].items[k], root.nodes[i])
       /\ cmd = "symbols" =>
            \A i \in 1..Len(root.nodes) :
              root.nodes[i].type \in DEFAULT_SYMBOL_NODE_TYPES
                => \E k \in 1..Len(stdout[1].items) :
                     /\ stdout[1].items[k].type = root.nodes[i].type
                     /\ stdout[1].items[k].start_byte = root.nodes[i].start_byte
                     /\ ~HasPoints(root.nodes[i]) =>
                          /\ stdout[1].items[k].start_point = <<0, 0>>
                          /\ stdout[1].items[k].end_point = <<0, 0>>

\* The order of the steps of a run.
Order == <<"load", "build", "read", "parse", "render", "print">>

\* C10: a run takes the steps load, build, read, parse, render, print in this
\* order and stops at the first failure: standard input is not read when the
\* run exits with 4 or 5, the node_at checks (7, 8) come after the load, the
\* build, the read and the parse, and an unloadable language exits with 4
\* whatever the arguments.
C10_FixedOrder ==
  /\ steps = SubSeq(Order, 1, Len(steps))
  /\ stdin_read <=> Len(steps) >= 3
  /\ exit_code = 4 => steps = <<"load">> /\ ~stdin_read
  /\ exit_code = 5 => steps = <<"load", "build">> /\ ~stdin_read
  /\ exit_code \in {7, 8} =>
       /\ steps = SubSeq(Order, 1, 5)
       /\ lang # "none" /\ parser # "none" /\ stdin_read
  /\ (Exited /\ load_language(package).raised) => exit_code = 4
  /\ stdout # <<>> => steps = Order

C10_Witness ==
  /\ Exited /\ exit_code = 4
  /\ cmd = "node_at" /\ Len(args) = 1 /\ ~IntParses(args[1])
  /\ ~stdin_read

====
